---- MODULE Spec2Model ----
(***************************************************************************)
(* Verification model of hydropt: the plant model of hydropt/model.py      *)
(* (BasinLevels, Basin, Outflow, Turbine, PowerPlant), the Kronecker       *)
(* indexing of hydropt.core and the backward induction of                  *)
(* hydropt.scenarios as driven by example_1.py.                            *)
(*                                                                         *)
(* Python positions are kept 0-based; TLA+ sequences are 1-based, so       *)
(* element i of a Python list l is l[i + 1] here.  Floating point values   *)
(* are fixed-point integers with Scale units per unit.                     *)
(***************************************************************************)
EXTENDS Integers, Sequences, FiniteSets, TLC

VARIABLES
    num_states,     \* Basin.num_states, per basin object
    power_plant,    \* Basin.power_plant, the back-reference of each basin
    basins,         \* PowerPlant._basins, per plant (None before construction)
    kron,           \* the last array returned by kron_index / kron_indices
    lbasin,         \* the Basin a level map is built for: [volume, num_states]
    bl,             \* the last BasinLevels object constructed (or None)
    exc,            \* the exception the last constructor call raised (or "None")
    shape_arg,      \* the basin_shape argument of the call that built bl
    turbines,       \* PowerPlant.turbines
    p_actions,      \* PowerPlant._actions
    pp_actions,     \* power_plant_actions, the list PowerPlant.actions builds
    actions_done,   \* TRUE once PowerPlant.actions() has returned pp_actions
    pc,             \* position of ScenarioOptimizer.run
    price,          \* Underlyings price forecast, per time step
    inflow,         \* Underlyings inflow per basin and time step (constant)
    t,              \* time step of the backward / forward pass
    cur,            \* joint state the backward / forward pass stands in
    heads,          \* Turbine.head() of each turbine of the plant, per joint state
    V,              \* value function, per time step and joint state
    policy,         \* recorded argmax joint action, per time step and state
    succ,           \* recorded successor state, per time step and state
    act_traj,       \* optimizer.turbine_actions, the realized joint actions
    vol_traj        \* optimizer.volume, the realized joint states

vars == <<num_states, power_plant, basins, kron, lbasin, bl, exc, shape_arg,
          turbines, p_actions, pp_actions, actions_done,
          pc, price, inflow, t, cur, heads, V, policy, succ, act_traj, vol_traj>>

plantVars == <<num_states, power_plant, basins, kron>>
levelVars == <<lbasin, bl, exc, shape_arg>>
actionVars == <<turbines, p_actions, pp_actions, actions_done>>
optVars == <<pc, price, inflow, t, cur, heads, V, policy, succ, act_traj, vol_traj>>

\* An optional value (a Python value that may be None) is a sequence of length
\* at most one: <<>> is None, <<x>> is x.  A call that may raise returns
\* [exc, val]: exc is "None" and val the result, or exc names the exception.
None == <<>>
Some(x) == <<x>>
IsNone(o) == Len(o) = 0
The(o) == o[1]
Return(v) == [exc |-> "None", val |-> v]
Raise(name) == [exc |-> name, val |-> <<>>]
Raised(r) == r.exc # "None"

\* ---------------------------------------------------------------- bounds
MaxStates == 3      \* largest num_states drawn for a basin
MaxBasins == 2      \* longest basins list given to a PowerPlant
Scale == 10         \* fixed-point units per unit of volume or level
MaxVolume == 2      \* largest Basin.volume drawn
MaxLevel == 2       \* largest empty / full level drawn
MaxTurbines == 2    \* longest turbines list given to a PowerPlant
MaxActions == 3     \* longest drawn actions list given to a PowerPlant
MaxHorizon == 2     \* longest horizon (number of time steps) drawn

\* ------------------------------------------------------- program constants
OutflowNumStates == 2
OutflowVolume == 1
ExampleStates1 == 81
ExampleStates2 == 41

\* ---------------------------------------------------------------- helpers
RECURSIVE Prod(_)
Prod(q) == IF q = <<>> THEN 1 ELSE Head(q) * Prod(Tail(q))

RECURSIVE SumTo(_, _)
SumTo(f, n) == IF n = 0 THEN 0 ELSE f[n] + SumTo(f, n - 1)

RECURSIVE SqrtFrom(_, _)
SqrtFrom(x, r) == IF (r + 1) * (r + 1) > x THEN r ELSE SqrtFrom(x, r + 1)

\* np.sqrt on a non-negative fixed-point radicand
Sqrt(x) == SqrtFrom(x, 0)

\* np.linspace(0, stop, num), in Scale units
Linspace(stop, num) ==
    [i \in 1..num |-> IF num = 1 THEN 0 ELSE ((i - 1) * stop * Scale) \div (num - 1)]

\* a lookup that returns the level of the knot after the one at or below x
InterpNextKnot(x, xp, fp) ==
    LET n == Len(xp)
        below == {k \in 1..n : xp[k] <= x}
    IN  IF below = {} THEN fp[1]
        ELSE IF Cardinality(below) = n THEN fp[n]
        ELSE fp[Cardinality(below) + 1]

\* np.interp(x, xp, fp) for one abscissa x
Interp(x, xp, fp) ==
    LET n == Len(xp)
    IN  IF x > xp[n] THEN fp[n]
        ELSE IF x < xp[1] THEN fp[1]
        ELSE LET j == CHOOSE k \in 1..n :
                         /\ xp[k] <= x
                         /\ \A m \in 1..n : xp[m] <= x => m <= k
             IN  IF j = n THEN fp[n]
                 ELSE IF xp[j] = x THEN fp[j]
                 ELSE ((fp[j + 1] - fp[j]) * (x - xp[j])) \div (xp[j + 1] - xp[j]) + fp[j]

\* ------------------------------------------------------------ BasinLevels
\* A BasinLevels object is [basin, empty, full, vol_to_level_lut]; basin is
\* optional, [volume, num_states] when present; the table is a sequence of
\* <<vol, level>> rows.

\* the wedge measured down from the full level instead of up from the empty one
compute_vol_to_level_lut_from_full(self, basin_shape) ==
    IF IsNone(self.basin) THEN Raise("AttributeError")
    ELSE
    LET basin == The(self.basin)
        vols == Linspace(basin.volume, basin.num_states)
        height == self.full - self.empty
    IN  IF basin_shape = "wedge"
        THEN Return([i \in 1..Len(vols) |->
                <<vols[i],
                  self.full * Scale
                  - Sqrt((Scale * vols[i] * height * height) \div basin.volume)>>])
        ELSE Raise("ValueError")

compute_vol_to_level_lut(self, basin_shape) ==
    IF IsNone(self.basin) THEN Raise("AttributeError")
    ELSE
    LET basin == The(self.basin)
        vols == Linspace(basin.volume, basin.num_states)
    IN  IF basin_shape = "wedge"
        THEN IF self.empty < self.full
             THEN LET height == self.full - self.empty
                      A == height * height
                      levels == [i \in 1..Len(vols) |->
                                   Sqrt((Scale * vols[i] * A) \div basin.volume)
                                   + self.empty * Scale]
                  IN  Return([i \in 1..Len(vols) |-> <<vols[i], levels[i]>>])
             ELSE Return([i \in 1..Len(vols) |-> <<vols[i], self.empty * Scale>>])
        ELSE Raise("ValueError")

\* BasinLevels.__init__: returns the object, or raises
BasinLevelsInit(empty, full, basin, vol_to_level_lut, basin_shape) ==
    LET self == [basin |-> basin, empty |-> empty,
                 full |-> IF IsNone(full) THEN empty ELSE The(full)]
        lut == IF IsNone(vol_to_level_lut)
               THEN compute_vol_to_level_lut(self, basin_shape)
               ELSE Return(The(vol_to_level_lut))
    IN  IF Raised(lut) THEN lut
        ELSE Return([basin |-> self.basin, empty |-> self.empty, full |-> self.full,
                     vol_to_level_lut |-> lut.val])

vols_p(self) == [i \in 1..Len(self.vol_to_level_lut) |-> self.vol_to_level_lut[i][1]]
levels_p(self) == [i \in 1..Len(self.vol_to_level_lut) |-> self.vol_to_level_lut[i][2]]

\* BasinLevels.values
values(self) ==
    IF IsNone(self.basin) THEN Raise("TypeError")
    ELSE LET basin == The(self.basin)
             vols == Linspace(basin.volume, basin.num_states)
         IN  Return([i \in 1..Len(vols) |-> Interp(vols[i], vols_p(self), levels_p(self))])

\* ------------------------------------------------- level maps: operations
Shapes == {"wedge", "cone"}
Levels == 0..MaxLevel
OptLevels == {None} \cup {Some(l) : l \in Levels}
KnotVols == {v * Scale : v \in 0..MaxVolume}
KnotLevels == {0, MaxLevel * Scale}

\* user-supplied lookup tables: two or three rows, volumes strictly increasing
CustomLuts ==
    {<<<<v1, l1>>, <<v2, l2>>>> :
        v1 \in KnotVols, v2 \in KnotVols, l1 \in KnotLevels, l2 \in KnotLevels}
    \cup
    {<<<<v1, l1>>, <<v2, l2>>, <<v3, l3>>>> :
        v1 \in KnotVols, v2 \in KnotVols, v3 \in KnotVols,
        l1 \in KnotLevels, l2 \in KnotLevels, l3 \in KnotLevels}
IncreasingVols(lut) == \A i \in 1..(Len(lut) - 1) : lut[i][1] < lut[i + 1][1]
OptLuts == {None} \cup {Some(lut) : lut \in {l \in CustomLuts : IncreasingVols(l)}}

InitLevels ==
    /\ lbasin \in [volume : 1..MaxVolume, num_states : 1..MaxStates]
    /\ bl = None
    /\ exc = "None"
    /\ shape_arg = "wedge"
    /\ num_states = [b \in {"basin_1", "basin_2", "Outflow"} |-> OutflowNumStates]
    /\ power_plant = [b \in {"basin_1", "basin_2", "Outflow"} |-> "None"]
    /\ basins = [p \in {"P1", "P2"} |-> None]
    /\ kron = [fn |-> "none", val |-> <<>>]
    /\ turbines = <<>> /\ p_actions = <<>> /\ pp_actions = <<>> /\ actions_done = FALSE
    /\ pc = "idle" /\ price = <<>> /\ inflow = 0 /\ t = 0 /\ cur = 0 /\ heads = <<>>
    /\ V = <<>> /\ policy = <<>> /\ succ = <<>> /\ act_traj = <<>> /\ vol_traj = <<>>

\* a call BasinLevels(empty, full, basin, vol_to_level_lut, basin_shape)
Construct(empty, full, basin, lut, shape) ==
    LET r == BasinLevelsInit(empty, full, basin, lut, shape)
    IN  /\ bl = None /\ exc = "None"
        /\ IF Raised(r)
           THEN exc' = r.exc /\ UNCHANGED <<bl, shape_arg>>
           ELSE bl' = Some(r.val) /\ shape_arg' = shape /\ UNCHANGED exc
        /\ UNCHANGED <<lbasin, plantVars, actionVars, optVars>>

NewBasinLevels ==
    \E empty \in Levels, full \in OptLevels, withBasin \in BOOLEAN,
       lut \in OptLuts, shape \in Shapes :
        Construct(empty, full, IF withBasin THEN Some(lbasin) ELSE None, lut, shape)

\* Basin.levels = levels, levels a BasinLevels instance
SetLevelsInstance ==
    /\ bl # None
    /\ IsNone(The(bl).basin)
    /\ bl' = Some([The(bl) EXCEPT !.basin = Some(lbasin)])
    /\ UNCHANGED <<lbasin, exc, shape_arg, plantVars, actionVars, optVars>>

\* Basin.levels = (empty, full)
SetLevelsTuple ==
    \E empty \in Levels, full \in Levels :
        Construct(empty, Some(full), Some(lbasin), None, "wedge")

\* Basin.levels = empty
SetLevelsScalar ==
    \E empty \in Levels : Construct(empty, None, Some(lbasin), None, "wedge")

NextLevels ==
    \/ NewBasinLevels
    \/ SetLevelsInstance
    \/ SetLevelsTuple
    \/ SetLevelsScalar

SpecLevels == InitLevels /\ [][NextLevels]_vars

NonDecreasing(q) == \A i \in 1..(Len(q) - 1) : q[i] <= q[i + 1]

\* the table of bl is the wedge table compute_vol_to_level_lut builds for it
WedgeBuilt(self) ==
    /\ ~IsNone(self.basin)
    /\ self.vol_to_level_lut = compute_vol_to_level_lut(self, "wedge").val

\* C7: with full level > empty level, the levels of the wedge table and the
\* grid values are non-decreasing in the volume, and the level at volume 0 is
\* the empty level.
LevelMonotone ==
    (bl # None /\ The(bl).empty < The(bl).full /\ WedgeBuilt(The(bl))) =>
        LET self == The(bl)
            grid == Linspace(The(self.basin).volume, The(self.basin).num_states)
        IN  /\ NonDecreasing(levels_p(self))
            /\ NonDecreasing(values(self).val)
            /\ \A i \in 1..Len(grid) :
                  /\ grid[i] = 0 => values(self).val[i] = self.empty * Scale
                  /\ vols_p(self)[i] = 0 => levels_p(self)[i] = self.empty * Scale

\* a wedge table with rising levels over at least three grid points exists
LevelMonotoneWitness ==
    /\ bl # None
    /\ The(bl).empty < The(bl).full
    /\ WedgeBuilt(The(bl))
    /\ Len(The(bl).vol_to_level_lut) >= 3
    /\ values(The(bl)).val[1] < values(The(bl)).val[2]
    /\ values(The(bl)).val[2] < values(The(bl)).val[3]

\* C8: interpolating at the volume of a table row returns that row's level;
\* when the table is on the basin's own volume grid, values is the level
\* column.
InterpAtControlPoints ==
    bl # None =>
        LET self == The(bl)
        IN  /\ \A i \in 1..Len(self.vol_to_level_lut) :
                  Interp(vols_p(self)[i], vols_p(self), levels_p(self)) = levels_p(self)[i]
            /\ (/\ ~IsNone(self.basin)
                /\ vols_p(self) = Linspace(The(self.basin).volume,
                                           The(self.basin).num_states))
               => values(self).val = levels_p(self)

\* a three-row table on the basin's own grid whose levels are not all equal
InterpAtControlPointsWitness ==
    /\ bl # None
    /\ ~IsNone(The(bl).basin)
    /\ Len(The(bl).vol_to_level_lut) = 3
    /\ vols_p(The(bl)) = Linspace(The(The(bl).basin).volume, The(The(bl).basin).num_states)
    /\ levels_p(The(bl))[1] # levels_p(The(bl))[2]
    /\ levels_p(The(bl))[2] # levels_p(The(bl))[3]

\* C9: no BasinLevels object with a shape name other than 'wedge' is ever
\* successfully constructed.
UnsupportedShapeRejected ==
    bl # None => shape_arg = "wedge"

\* ------------------------------------------------- Basin, Outflow, Turbine
Plants == {"P1", "P2"}
BasinObjs == {"basin_1", "basin_2", "Outflow"}
TurbineObjs == {"turbine_1", "turbine_2"}

\* constructor arguments of the basin objects (example_1.py, scaled down):
\* volume and the levels argument (empty, full); Outflow passes a bare level
BasinArgs ==
    [basin_1 |-> [volume |-> 2, empty |-> 5, full |-> Some(7)],
     basin_2 |-> [volume |-> 1, empty |-> 3, full |-> Some(4)],
     Outflow |-> [volume |-> OutflowVolume, empty |-> 1, full |-> None]]

upper_basin == [turbine_1 |-> "basin_1", turbine_2 |-> "basin_2"]
lower_basin == [turbine_1 |-> "basin_2", turbine_2 |-> "Outflow"]

\* Basin._levels as the levels setter builds it in Basin.__init__
BasinLevelsOf(b) ==
    BasinLevelsInit(BasinArgs[b].empty, BasinArgs[b].full,
                    Some([volume |-> BasinArgs[b].volume, num_states |-> num_states[b]]),
                    None, "wedge").val

\* ------------------------------------------------------------- hydropt.core
\* stride of position i (0-based): the product of the counts before it
Stride(dims, i) == Prod(SubSeq(dims, 1, i))

\* per-basin index of joint state s at position i
KronAt(dims, i, s) == (s \div Stride(dims, i)) % dims[i + 1]

\* kron_index(dims, index): position index of every joint state; index must
\* be a position of dims
kron_index(dims, index) ==
    IF IsNone(index) THEN Raise("TypeError")
    ELSE Return([s \in 1..Prod(dims) |-> KronAt(dims, The(index), s - 1)])

\* kron_indices(counts, selectors): one row of per-dimension indices per
\* combination, in mixed-radix order
kron_indices(counts, selectors) ==
    [s \in 1..Prod(counts) |->
        [j \in 1..Len(selectors) |-> KronAt(counts, selectors[j], s - 1)]]

\* re-encoding of per-basin indices into the joint state index
Encode(dims, idx) ==
    LET RECURSIVE Sum(_)
        Sum(i) == IF i = 0 THEN 0 ELSE idx[i] * Stride(dims, i - 1) + Sum(i - 1)
    IN  Sum(Len(dims))

\* --------------------------------------------------------------- PowerPlant
BasinsOf(p) == The(basins[p])

\* PowerPlant.basin_index: list.index, or None on ValueError
basin_index(p, basin) ==
    LET at == {i \in 1..Len(BasinsOf(p)) : BasinsOf(p)[i] = basin}
    IN  IF at = {} THEN None
        ELSE Some((CHOOSE i \in at : \A j \in at : i <= j) - 1)

\* the basins' volumes in place of their state counts
basin_num_states_volumes(p) == [i \in 1..Len(BasinsOf(p)) |-> BasinArgs[BasinsOf(p)[i]].volume]

basin_num_states(p) == [i \in 1..Len(BasinsOf(p)) |-> num_states[BasinsOf(p)[i]]]

\* the sum of the counts in place of their product
NumStatesSum(p) == SumTo(basin_num_states(p), Len(BasinsOf(p)))

\* PowerPlant.num_states
NumStates(p) == Prod(basin_num_states(p))

\* a numpy value is [scalar, a]: a 0-d value has scalar TRUE and one entry
Scalar(x) == [scalar |-> TRUE, a |-> <<x>>]
Array(q) == [scalar |-> FALSE, a |-> q]

\* Basin.kron_levels
kron_levels(b) ==
    IF power_plant[b] = "None"
    THEN Return(Scalar(BasinLevelsOf(b).empty * Scale))
    ELSE LET p == power_plant[b]
             idx == kron_index(basin_num_states(p), basin_index(p, b))
             lv == values(BasinLevelsOf(b)).val
         IN  IF Raised(idx) THEN idx
             ELSE Return(Array([s \in 1..Len(idx.val) |-> lv[idx.val[s] + 1]]))

\* x - y on numpy values, with broadcasting
Subtract(x, y) ==
    LET nx == Len(x.a)
        ny == Len(y.a)
    IN  IF nx = ny
        THEN Return([scalar |-> x.scalar /\ y.scalar,
                     a |-> [s \in 1..nx |-> x.a[s] - y.a[s]]])
        ELSE IF ny = 1 THEN Return(Array([s \in 1..nx |-> x.a[s] - y.a[1]]))
        ELSE IF nx = 1 THEN Return(Array([s \in 1..ny |-> x.a[1] - y.a[s]]))
        ELSE Raise("ValueError")

\* Turbine.head
head(turbine) ==
    LET up == kron_levels(upper_basin[turbine])
        lo == kron_levels(lower_basin[turbine])
    IN  IF Raised(up) THEN up
        ELSE IF Raised(lo) THEN lo
        ELSE Subtract(up.val, lo.val)

\* --------------------------------------------- plant configuration machine
BasinLists == UNION {[1..n -> BasinObjs] : n \in 0..MaxBasins}

Init ==
    /\ num_states \in {f \in [BasinObjs -> 1..MaxStates] :
                          f["Outflow"] = OutflowNumStates}
    /\ power_plant = [b \in BasinObjs |-> "None"]
    /\ basins = [p \in Plants |-> None]
    /\ kron = [fn |-> "none", val |-> <<>>]
    /\ lbasin = [volume |-> 1, num_states |-> 1]
    /\ bl = None /\ exc = "None" /\ shape_arg = "wedge"
    /\ turbines = <<>> /\ p_actions = <<>> /\ pp_actions = <<>> /\ actions_done = FALSE
    /\ pc = "idle" /\ price = <<>> /\ inflow = 0 /\ t = 0 /\ cur = 0 /\ heads = <<>>
    /\ V = <<>> /\ policy = <<>> /\ succ = <<>> /\ act_traj = <<>> /\ vol_traj = <<>>

\* the basins setter: PowerPlant.basins = bs
basins_setter(p, bs) ==
    /\ power_plant' = [b \in BasinObjs |->
                          IF \E i \in 1..Len(bs) : bs[i] = b THEN p ELSE power_plant[b]]
    /\ basins' = [basins EXCEPT ![p] = Some(bs)]

\* PowerPlant(basins=bs, ...)
PowerPlantInit(p, bs) ==
    /\ basins[p] = None
    /\ basins_setter(p, bs)
    /\ UNCHANGED <<num_states, kron, levelVars, actionVars, optVars>>

\* p.basins = bs on a constructed plant
SetBasins(p, bs) ==
    /\ basins[p] # None
    /\ basins_setter(p, bs)
    /\ UNCHANGED <<num_states, kron, levelVars, actionVars, optVars>>

Next ==
    \/ \E p \in Plants, bs \in BasinLists : PowerPlantInit(p, bs)
    \/ \E p \in Plants, bs \in BasinLists : SetBasins(p, bs)

Spec == Init /\ [][Next]_vars

\* C10: every basin whose back-reference is a plant P is in P's current
\* basins list, so basin_index inside kron_levels never returns None.
BackRefInBasins ==
    \A b \in BasinObjs :
        power_plant[b] # "None" => ~IsNone(basin_index(power_plant[b], b))

Range(q) == {q[i] : i \in 1..Len(q)}
Injective(q) == \A i, j \in 1..Len(q) : q[i] = q[j] => i = j

\* the basin counts of example_1.py
ExampleNumStates ==
    [basin_1 |-> ExampleStates1, basin_2 |-> ExampleStates2, Outflow |-> OutflowNumStates]

\* a plant built from one to MaxBasins distinct basins
InitKron ==
    /\ num_states \in {f \in [BasinObjs -> 1..MaxStates] : f["Outflow"] = OutflowNumStates}
                      \cup {ExampleNumStates}
    /\ \E bs \in {q \in BasinLists : Len(q) >= 1 /\ Injective(q)} :
          /\ basins = [p \in Plants |-> IF p = "P1" THEN Some(bs) ELSE None]
          /\ power_plant = [b \in BasinObjs |-> IF b \in Range(bs) THEN "P1" ELSE "None"]
    /\ kron = [fn |-> "none", val |-> <<>>]
    /\ lbasin = [volume |-> 1, num_states |-> 1]
    /\ bl = None /\ exc = "None" /\ shape_arg = "wedge"
    /\ turbines = <<>> /\ p_actions = <<>> /\ pp_actions = <<>> /\ actions_done = FALSE
    /\ pc = "idle" /\ price = <<>> /\ inflow = 0 /\ t = 0 /\ cur = 0 /\ heads = <<>>
    /\ V = <<>> /\ policy = <<>> /\ succ = <<>> /\ act_traj = <<>> /\ vol_traj = <<>>

\* the kron_index call of Basin.kron_levels, for basin b of the plant
KronIndex(b) ==
    /\ power_plant[b] = "P1"
    /\ kron' = [fn |-> "kron_index",
                val |-> kron_index(basin_num_states("P1"), basin_index("P1", b)).val]
    /\ UNCHANGED <<num_states, power_plant, basins, levelVars, actionVars, optVars>>

\* kron_indices over all basins of the plant: the joint state enumeration
KronIndices ==
    /\ kron' = [fn |-> "kron_indices",
                val |-> kron_indices(basin_num_states("P1"),
                                     [i \in 1..Len(BasinsOf("P1")) |-> i - 1])]
    /\ UNCHANGED <<num_states, power_plant, basins, levelVars, actionVars, optVars>>

NextKron ==
    \/ \E b \in BasinObjs : KronIndex(b)
    \/ KronIndices

SpecKron == InitKron /\ [][NextKron]_vars

\* n_1..n_k: the state counts of the plant's basins in configuration order
Counts(p) == [i \in 1..Len(BasinsOf(p)) |-> num_states[BasinsOf(p)[i]]]

\* every tuple of per-basin indices: idx[i] in 0..dims[i]-1
RECURSIVE Tuples(_)
Tuples(dims) ==
    IF dims = <<>> THEN {<<>>}
    ELSE {Append(tp, x) : tp \in Tuples(SubSeq(dims, 1, Len(dims) - 1)),
                          x \in 0..(dims[Len(dims)] - 1)}

\* decoding of the joint states of plant p as kron_levels indexes them: row i
\* is the kron_index array of the i-th basin
DecodeTable(p) ==
    [i \in 1..Len(BasinsOf(p)) |->
        kron_index(basin_num_states(p), basin_index(p, BasinsOf(p)[i])).val]

\* C1: decoding a joint state s to per-basin indices and re-encoding returns s,
\* and every tuple of per-basin indices is produced by exactly one s.
IndexBijection ==
    LET dims == Counts("P1")
        K == DecodeTable("P1")
        Decode(s) == [i \in 1..Len(dims) |-> K[i][s + 1]]
        N == Prod(dims)
    IN  /\ \A i \in 1..Len(dims) : Len(K[i]) = N
        /\ \A s \in 0..(N - 1) : Encode(dims, Decode(s)) = s
        /\ \A tp \in Tuples(dims) :
              /\ Encode(dims, tp) \in 0..(N - 1)
              /\ Decode(Encode(dims, tp)) = tp

\* a non-trivial decoding has been computed: two basins with different counts,
\* and the array of the second basin is on hand
IndexBijectionWitness ==
    /\ Len(BasinsOf("P1")) = 2
    /\ Counts("P1")[1] # Counts("P1")[2]
    /\ Counts("P1")[1] > 1 /\ Counts("P1")[2] > 1
    /\ kron.fn = "kron_index"
    /\ kron.val = DecodeTable("P1")[2]

\* C2: num_states() is the product of the basins' counts, the joint-state
\* enumeration yields exactly that many combinations, each once; basins with
\* 81 and 41 states give 3321 joint states.
JointStateCount ==
    LET dims == Counts("P1")
        rows == kron_indices(dims, [i \in 1..Len(dims) |-> i - 1])
    IN  /\ NumStates("P1") = Cardinality(Tuples(dims))
        /\ Len(rows) = NumStates("P1")
        /\ Range(rows) = Tuples(dims)
        /\ Cardinality(Range(rows)) = Len(rows)
        /\ dims = <<ExampleStates1, ExampleStates2>> =>
              NumStates("P1") = 3321 /\ Len(rows) = 3321

\* the enumeration over (81, 41) has been computed
JointStateCountWitness ==
    /\ Counts("P1") = <<ExampleStates1, ExampleStates2>>
    /\ kron.fn = "kron_indices"
    /\ Len(kron.val) = 3321
    /\ kron.val[1] = <<0, 0>>

\* ------------------------------------------------------ joint action space
\* the action objects of example_1.py and the turbine each is bound to
ActionObjs == {"Standing_1", "PowerMin_1", "PowerMax_1",
               "Standing_2", "PowerMin_2", "PowerMax_2"}
ActionTurbine ==
    [Standing_1 |-> "turbine_1", PowerMin_1 |-> "turbine_1", PowerMax_1 |-> "turbine_1",
     Standing_2 |-> "turbine_2", PowerMin_2 |-> "turbine_2", PowerMax_2 |-> "turbine_2"]
ExampleTurbines == <<"turbine_1", "turbine_2">>
ExampleActions == <<"Standing_1", "PowerMin_1", "PowerMax_1",
                    "Standing_2", "PowerMin_2", "PowerMax_2">>

\* every turbine is given all configured actions
turbine_actions_unfiltered == [k \in 1..Len(turbines) |-> p_actions]

\* PowerPlant.turbine_actions
turbine_actions ==
    [k \in 1..Len(turbines) |->
        SelectSeq(p_actions, LAMBDA a : ActionTurbine[a] = turbines[k])]

\* PowerPlant.actions: the groups of the PowerPlantAction objects, in order
actions ==
    LET ta == turbine_actions
        num_actions == [k \in 1..Len(ta) |-> Len(ta[k])]
        combinations == kron_indices(num_actions, [k \in 1..Len(num_actions) |-> k - 1])
    IN  [c \in 1..Len(combinations) |->
            [k \in 1..Len(combinations[c]) |-> ta[k][combinations[c][k] + 1]]]

TurbineLists == UNION {[1..n -> TurbineObjs] : n \in 1..MaxTurbines}
ActionLists ==
    {q \in UNION {[1..n -> ActionObjs] : n \in 0..MaxActions} : Injective(q)}
    \cup {ExampleActions}

InitActions ==
    /\ turbines \in TurbineLists
    /\ p_actions \in ActionLists
    /\ pp_actions = <<>>
    /\ actions_done = FALSE
    /\ num_states = [b \in BasinObjs |-> OutflowNumStates]
    /\ power_plant = [b \in BasinObjs |-> "None"]
    /\ basins = [p \in Plants |-> None]
    /\ kron = [fn |-> "none", val |-> <<>>]
    /\ lbasin = [volume |-> 1, num_states |-> 1]
    /\ bl = None /\ exc = "None" /\ shape_arg = "wedge"
    /\ pc = "idle" /\ price = <<>> /\ inflow = 0 /\ t = 0 /\ cur = 0 /\ heads = <<>>
    /\ V = <<>> /\ policy = <<>> /\ succ = <<>> /\ act_traj = <<>> /\ vol_traj = <<>>

\* power_plant.actions()
Actions ==
    /\ ~actions_done
    /\ pp_actions' = actions
    /\ actions_done' = TRUE
    /\ UNCHANGED <<turbines, p_actions, plantVars, levelVars, optVars>>

NextActions == Actions

SpecActions == InitActions /\ [][NextActions]_vars

\* A_j: the configured actions bound to the j-th turbine
BoundTo(j) == {a \in Range(p_actions) : ActionTurbine[a] = turbines[j]}

RECURSIVE SizeProduct(_)
SizeProduct(j) == IF j = 0 THEN 1 ELSE Cardinality(BoundTo(j)) * SizeProduct(j - 1)

\* C3: actions() is exactly the Cartesian product of the per-turbine action
\* lists: |A_1|*...*|A_k| joint actions, the j-th member of each from A_j, every
\* combination exactly once; 2 turbines with 3 actions each give 9.
ActionsCartesian ==
    actions_done =>
        LET k == Len(turbines)
        IN  /\ Len(pp_actions) = SizeProduct(k)
            /\ \A c \in 1..Len(pp_actions) :
                  /\ Len(pp_actions[c]) = k
                  /\ \A j \in 1..k : pp_actions[c][j] \in BoundTo(j)
            /\ \A g \in {f \in [1..k -> ActionObjs] : \A j \in 1..k : f[j] \in BoundTo(j)} :
                  Cardinality({c \in 1..Len(pp_actions) : pp_actions[c] = g}) = 1
            /\ (turbines = ExampleTurbines /\ p_actions = ExampleActions)
                  => Len(pp_actions) = 9

\* the example plant's joint actions have been enumerated
ActionsCartesianWitness ==
    /\ actions_done
    /\ turbines = ExampleTurbines /\ p_actions = ExampleActions
    /\ Len(pp_actions) = 9
    /\ pp_actions[1] = <<"Standing_1", "Standing_2">>

\* ------------------------------------------------------- Turbine physics
\* Turbine.power and Turbine.flow_rate at one joint state, h the head there;
\* power is counted in units of efficiency*(1000*9.81)
power(h, fl) == h * fl
flow_rate(h, pw) == pw \div h

\* constructor arguments of the turbines (example_1.py, scaled down)
TurbineArgs ==
    [turbine_1 |-> [base_load |-> 100, max_power |-> 330],
     turbine_2 |-> [base_load |-> 70, max_power |-> 150]]

\* ------------------------------------------------------------ hydropt.action
ActionKind ==
    [Standing_1 |-> "Standing", PowerMin_1 |-> "PowerMin", PowerMax_1 |-> "PowerMax",
     Standing_2 |-> "Standing", PowerMin_2 |-> "PowerMin", PowerMax_2 |-> "PowerMax"]

\* the flow an action asks of its turbine under head h: Standing is zero
\* flow, PowerMin the flow for base_load, PowerMax the flow for max_power
ActionFlow(a, h) ==
    CASE ActionKind[a] = "Standing" -> 0
      [] ActionKind[a] = "PowerMin" -> flow_rate(h, TurbineArgs[ActionTurbine[a]].base_load)
      [] ActionKind[a] = "PowerMax" -> flow_rate(h, TurbineArgs[ActionTurbine[a]].max_power)

\* --------------------------------------------------------- hydropt.scenarios
\* ScenarioOptimizer for plant P1.  H[k] is the head array of the k-th
\* turbine, s a joint state index, g a joint action (one action per turbine).
Horizon == Len(price)
PlantBasins == BasinsOf("P1")

\* the volume grid of a basin: np.linspace(0, basin.volume, basin.num_states)
Grid(b) == Linspace(BasinArgs[b].volume, num_states[b])

HeadAt(H, k, s) == IF Len(H[k]) = 1 THEN H[k][1] ELSE H[k][s + 1]

\* volume of the i-th basin (1-based) in joint state s
VolumeAt(s, i) == Grid(PlantBasins[i])[KronAt(basin_num_states("P1"), i - 1, s) + 1]

Flows(H, s, g) == [k \in 1..Len(g) |-> ActionFlow(g[k], HeadAt(H, k, s))]

\* inflow - flows leaving + flows entering, added to the volume; not clamped
NextVolume(H, s, g, i) ==
    LET fl == Flows(H, s, g)
        b == PlantBasins[i]
        leaving == SumTo([k \in 1..Len(g) |->
                            IF upper_basin[turbines[k]] = b THEN fl[k] ELSE 0], Len(g))
        entering == SumTo([k \in 1..Len(g) |->
                            IF lower_basin[turbines[k]] = b THEN fl[k] ELSE 0], Len(g))
    IN  VolumeAt(s, i) + inflow - leaving + entering

\* an action is infeasible when a basin would be drawn below empty or a
\* turbine asked for power has no positive head
Feasible(H, s, g) ==
    /\ \A k \in 1..Len(g) : ActionKind[g[k]] # "Standing" => HeadAt(H, k, s) > 0
    /\ \A i \in 1..Len(PlantBasins) : NextVolume(H, s, g, i) >= 0

Clamp(v, b) ==
    IF v < 0 THEN 0
    ELSE IF v > BasinArgs[b].volume * Scale THEN BasinArgs[b].volume * Scale
    ELSE v

Abs(x) == IF x < 0 THEN 0 - x ELSE x

\* nearest grid point of basin b to volume v, as a 0-based state index
Snap(b, v) ==
    LET grid == Grid(b)
    IN  (CHOOSE i \in 1..Len(grid) :
            \A j \in 1..Len(grid) :
                \/ Abs(grid[i] - v) < Abs(grid[j] - v)
                \/ (Abs(grid[i] - v) = Abs(grid[j] - v) /\ i <= j)) - 1

Successor(H, s, g) ==
    Encode(basin_num_states("P1"),
           [i \in 1..Len(PlantBasins) |->
               Snap(PlantBasins[i], Clamp(NextVolume(H, s, g, i), PlantBasins[i]))])

\* sum over the turbines of power times the price of step tt (0-based)
Reward(H, s, g, tt) ==
    LET fl == Flows(H, s, g)
    IN  SumTo([k \in 1..Len(g) |-> power(HeadAt(H, k, s), fl[k]) * price[tt + 1]], Len(g))

FeasibleActions(H, s) == {c \in 1..Len(pp_actions) : Feasible(H, s, pp_actions[c])}

ActionValue(H, s, c, tt, Vnext) ==
    Reward(H, s, pp_actions[c], tt) + Vnext[Successor(H, s, pp_actions[c]) + 1]

\* the least of a non-empty set of numbers
Min(S) == CHOOSE v \in S : \A w \in S : v <= w

\* the greatest of a non-empty set of numbers
Max(S) == CHOOSE v \in S : \A w \in S : v >= w

\* the Bellman recursion at state s and step tt: the first feasible action of
\* greatest value, as [action, value, successor]
Bellman(H, s, tt, Vnext) ==
    LET cand == {<<c, ActionValue(H, s, c, tt, Vnext)>> : c \in FeasibleActions(H, s)}
        vbest == Max({r[2] : r \in cand})
        c == CHOOSE r \in cand : r[2] = vbest /\ \A q \in cand : q[2] = vbest => r[1] <= q[1]
    IN  [action |-> c[1], value |-> vbest, successor |-> Successor(H, s, pp_actions[c[1]])]

Heads == [k \in 1..Len(turbines) |-> head(turbines[k]).val.a]

JointStates == 0..(NumStates("P1") - 1)

Prices == {0 - 1, 0, 1}
NoStandingActions == <<"PowerMin_1", "PowerMax_1", "PowerMin_2", "PowerMax_2">>

\* V, policy and succ are indexed by time step (step tt at position tt + 1)
\* and hold one entry per joint state evaluated so far
InitOpt ==
    /\ num_states \in {f \in [BasinObjs -> 2..MaxStates] : f["Outflow"] = OutflowNumStates}
    /\ basins = [p \in Plants |-> IF p = "P1" THEN Some(<<"basin_1", "basin_2">>) ELSE None]
    /\ power_plant = [b \in BasinObjs |-> IF b = "Outflow" THEN "None" ELSE "P1"]
    /\ kron = [fn |-> "none", val |-> <<>>]
    /\ lbasin = [volume |-> 1, num_states |-> 1]
    /\ bl = None /\ exc = "None" /\ shape_arg = "wedge"
    /\ turbines = ExampleTurbines
    /\ p_actions \in {ExampleActions, NoStandingActions}
    /\ pp_actions = actions
    /\ actions_done = TRUE
    /\ price \in UNION {[1..n -> Prices] : n \in 1..MaxHorizon}
    /\ inflow \in {0, Scale \div 2}
    /\ pc = "backward"
    /\ t = Len(price)
    /\ cur = 0
    /\ heads = Heads
    /\ V = [u \in 1..(Len(price) + 1) |->
              IF u = Len(price) + 1 THEN [s \in 1..NumStates("P1") |-> 0] ELSE <<>>]
    /\ policy = [u \in 1..Len(price) |-> <<>>]
    /\ succ = [u \in 1..Len(price) |-> <<>>]
    /\ act_traj = <<>> /\ vol_traj = <<>>

\* the backward induction at step t - 1 and joint state cur
BackwardStep ==
    /\ pc = "backward" /\ t > 0
    /\ IF FeasibleActions(heads, cur) = {}
       THEN /\ pc' = "infeasible"
            /\ UNCHANGED <<t, cur, V, policy, succ>>
       ELSE LET best == Bellman(heads, cur, t - 1, V[t + 1])
            IN  /\ V' = [V EXCEPT ![t] = Append(@, best.value)]
                /\ policy' = [policy EXCEPT ![t] = Append(@, best.action)]
                /\ succ' = [succ EXCEPT ![t] = Append(@, best.successor)]
                /\ IF cur + 1 < NumStates("P1")
                   THEN cur' = cur + 1 /\ t' = t
                   ELSE cur' = 0 /\ t' = t - 1
                /\ UNCHANGED pc
    /\ UNCHANGED <<price, inflow, heads, act_traj, vol_traj,
                   plantVars, levelVars, actionVars>>

\* the forward pass starts in the joint state of the basins' init_volume
StartForward ==
    /\ pc = "backward" /\ t = 0
    /\ \E init_volume \in [1..Len(PlantBasins) -> 0..MaxVolume] :
          /\ \A i \in 1..Len(PlantBasins) :
                init_volume[i] <= BasinArgs[PlantBasins[i]].volume
          /\ cur' = Encode(basin_num_states("P1"),
                           [i \in 1..Len(PlantBasins) |->
                               Snap(PlantBasins[i], init_volume[i] * Scale)])
    /\ vol_traj' = <<[i \in 1..Len(PlantBasins) |-> VolumeAt(cur', i)]>>
    /\ act_traj' = <<>>
    /\ pc' = "forward"
    /\ UNCHANGED <<price, inflow, t, heads, V, policy, succ,
                   plantVars, levelVars, actionVars>>

\* one step of the forward reconstruction
ForwardStep ==
    /\ pc = "forward" /\ t < Horizon
    /\ act_traj' = Append(act_traj, pp_actions[policy[t + 1][cur + 1]])
    /\ cur' = succ[t + 1][cur + 1]
    /\ vol_traj' = Append(vol_traj, [i \in 1..Len(PlantBasins) |-> VolumeAt(cur', i)])
    /\ t' = t + 1
    /\ UNCHANGED <<pc, price, inflow, heads, V, policy, succ,
                   plantVars, levelVars, actionVars>>

\* run() returns
Finish ==
    /\ pc = "forward" /\ t = Horizon
    /\ pc' = "done"
    /\ UNCHANGED <<price, inflow, t, cur, heads, V, policy, succ, act_traj, vol_traj,
                   plantVars, levelVars, actionVars>>

NextOpt ==
    \/ BackwardStep
    \/ StartForward
    \/ ForwardStep
    \/ Finish

SpecOpt == InitOpt /\ [][NextOpt]_vars

\* the joint actions of the plant: one configured action per turbine, the
\* k-th bound to the k-th turbine
JointActions ==
    {g \in [1..Len(turbines) -> ActionObjs] : \A k \in 1..Len(turbines) : g[k] \in BoundTo(k)}

\* the trajectories built so far are well-formed, and complete once run()
\* has returned
TrajectoriesWellFormed ==
    /\ \A j \in 1..Len(act_traj) : act_traj[j] \in JointActions
    /\ \A j \in 1..Len(vol_traj) : \A i \in 1..Len(PlantBasins) :
          /\ vol_traj[j][i] >= 0
          /\ vol_traj[j][i] <= BasinArgs[PlantBasins[i]].volume * Scale
    /\ pc = "done" => Len(act_traj) = Horizon /\ Len(vol_traj) = Horizon + 1

\* the number of steps run() has left at most
StepsLeft ==
    CASE pc = "backward" -> t * NumStates("P1") - cur + Horizon + 2
      [] pc = "forward" -> Horizon - t + 1
      [] OTHER -> 0

\* the guard of a step of run() holds
StepEnabled ==
    \/ pc = "backward" /\ t \in 0..Horizon /\ cur \in JointStates
    \/ /\ pc = "forward" /\ t \in 0..Horizon /\ cur \in JointStates
       /\ t < Horizon => cur + 1 <= Len(policy[t + 1]) /\ cur + 1 <= Len(succ[t + 1])

\* for the example plant run() is never stuck before it returns
ExampleRunProceeds ==
    (p_actions = ExampleActions /\ Len(pp_actions) = 9) =>
        /\ pc # "infeasible"
        /\ pc = "done" \/ StepEnabled

\* C5: for the example plant (two basins, two turbines, 9 joint actions) run()
\* terminates (it is never stuck before it returns, and every step leaves
\* fewer steps), the action trajectory has one enumerated joint action per
\* time step, and the volume trajectory has one more entry with every basin's
\* volume within [0, basin.volume].
RunTerminatesWellFormed ==
    /\ [](TrajectoriesWellFormed /\ ExampleRunProceeds /\ StepsLeft >= 0)
    /\ [][StepsLeft' < StepsLeft]_vars

\* run() has returned for the example plant with a trajectory that moves water
RunTerminatesWellFormedWitness ==
    /\ pc = "done"
    /\ p_actions = ExampleActions
    /\ Len(pp_actions) = 9
    /\ Len(act_traj) = MaxHorizon
    /\ \E j \in 1..Len(act_traj) : \E k \in 1..Len(turbines) :
          ActionKind[act_traj[j][k]] # "Standing"
    /\ \E j \in 1..(Len(vol_traj) - 1) : vol_traj[j] # vol_traj[j + 1]

\* an action of reward >= 0 is feasible at every joint state and time step
NonNegativeAchievable ==
    \A tt \in 0..(Horizon - 1) : \A s \in JointStates :
        \E c \in 1..Len(pp_actions) :
            /\ Feasible(heads, s, pp_actions[c])
            /\ Reward(heads, s, pp_actions[c], tt) >= 0

\* C6: with terminal value 0, when an action of reward >= 0 is feasible at
\* every state and time, V_t(s) >= 0 for every time step and joint state.
ValueNonNegative ==
    NonNegativeAchievable =>
        \A u \in 1..Len(V) : \A s \in 1..Len(V[u]) : V[u][s] >= 0

\* the backward induction has run where prices go negative, so that actions of
\* negative reward were on offer, and found positive value
ValueNonNegativeWitness ==
    /\ pc = "done"
    /\ NonNegativeAchievable
    /\ \E tt \in 1..Horizon : price[tt] < 0
    /\ \E s \in 1..Len(V[1]) : V[1][s] > 0
    /\ \E tt \in 0..(Horizon - 1) : \E s \in JointStates :
          \E c \in FeasibleActions(heads, s) : Reward(heads, s, pp_actions[c], tt) < 0

====
